---- MODULE Spec2Model ----
(***************************************************************************)
(* PathGreen-AI: the streaming fusion-and-emission pipeline of             *)
(* src/backend/transforms.py, as state machines.                           *)
(*                                                                         *)
(*   SpecFusion  join_gps_and_telemetry: the two input tables grow one row *)
(*               at a time and the joined table is re-evaluated.           *)
(*   SpecAlert   determine_alert applied to one reading.                   *)
(*   SpecWindow  compute_rolling_efficiency: emission rows arrive and the  *)
(*               tumbling-window reduction is maintained.                  *)
(*   SpecEmission calculate_speed_penalty, calculate_co2_emission,         *)
(*               determine_alert and compute_emissions applied to one      *)
(*               VehicleState.                                             *)
(*                                                                         *)
(* Floats are fixed-point integers: speeds in tenths (450 is 45.0 km/h),   *)
(* rates and grams in Gram units.  Timestamps are abstract clock units;    *)
(* the window duration and cutoff are in seconds of the same clock.        *)
(***************************************************************************)
EXTENDS Integers, Sequences, FiniteSets, TLC

VARIABLES
    gps_table,         \* rows of the GPS input table (GPSEvent)
    telemetry_table,   \* rows of the telemetry input table (TelemetryEvent)
    vehicle_state,     \* rows of the table join_gps_and_telemetry returns
    retracted,         \* rows the joined table has emitted and later withdrawn
    reading,           \* the arguments of the current determine_alert call
    alert,             \* what that call returned (NoResult before the call)
    emissions,         \* emission rows that reached compute_rolling_efficiency
    max_time,          \* the window operator's clock: largest timestamp seen
    buckets,           \* window start -> ids of the rows folded into it
    windowed,          \* rows of the table compute_rolling_efficiency returns
    stopped,           \* the process that runs the pipeline has been stopped
    emitted,           \* vehicle -> timestamps of the emission rows put out, in order
    vstate,            \* the VehicleState row the emission model is applied to
    penalty,           \* what calculate_speed_penalty returned for it
    co2,               \* what calculate_co2_emission returned for it
    record,            \* the row compute_emissions produced for it
    vehicle_telemetry, \* TelemetryStreamSubject.vehicle_telemetry: vehicle -> its state
    sent,              \* vehicle -> the telemetry events emitted for it, in order
    truck,             \* FleetSimulator.routes: the entry of one truck of the fleet
    alerts             \* the alerts the last next_tick returned for that truck

vars == <<gps_table, telemetry_table, vehicle_state, retracted, emitted,
          reading, alert, emissions, max_time, buckets, windowed, stopped,
          vstate, penalty, co2, record, vehicle_telemetry, sent,
          truck, alerts>>

fusionVars   == <<gps_table, telemetry_table, vehicle_state, retracted, emitted>>
alertVars    == <<reading, alert>>
windowVars   == <<emissions, max_time, buckets, windowed, stopped>>
emissionVars == <<vstate, penalty, co2, record>>
telemetryVars == <<vehicle_telemetry, sent>>
simVars      == <<truck, alerts>>

\* ------------------------------------------------------------------------
\* Bounds of the model
\* ------------------------------------------------------------------------
MaxTime == 2        \* fusion: event timestamps range over 0..MaxTime
MaxGps  == 2        \* fusion: at most this many position events arrive
MaxTel  == 2        \* fusion: at most this many telemetry events arrive

\* VEHICLE_IDS (two of the five are enough to interleave vehicles)
Vehicles == {"TRK-101", "TRK-102"}

\* ------------------------------------------------------------------------
\* Stream fusion: join_gps_and_telemetry
\* ------------------------------------------------------------------------

\* What the GPS event of a vehicle at time t carries besides its key: a
\* point on the vehicle's route (latitude and longitude in 1e-2 degrees,
\* speed in tenths of km/h, heading in degrees).  The vehicle stands still
\* at time 0 and moves afterwards.
GpsReadingAt(v, t) ==
    [latitude  |-> (IF v = "TRK-101" THEN 1284 ELSE 1297) + t,
     longitude |-> (IF v = "TRK-101" THEN 7768 ELSE 7750) - t,
     speed_kmh |-> 150 * t,
     heading   |-> (90 * t) % 360]

\* Values a telemetry event can carry besides its key.
TelemetryReadings ==
    { [fuel_level_pct |-> 80, engine_temp_c |-> 90, load_kg |-> 1000, idle_seconds |-> 30],
      [fuel_level_pct |-> 50, engine_temp_c |-> 75, load_kg |-> 2000, idle_seconds |-> 150] }

GPSEvent(v, t, g) ==
    [vehicle_id |-> v, timestamp |-> t,
     latitude |-> g.latitude, longitude |-> g.longitude,
     speed_kmh |-> g.speed_kmh, heading |-> g.heading]

TelemetryEvent(v, t, r) ==
    [vehicle_id |-> v, timestamp |-> t,
     fuel_level_pct |-> r.fuel_level_pct, engine_temp_c |-> r.engine_temp_c,
     load_kg |-> r.load_kg, idle_seconds |-> r.idle_seconds]

\* The literals of the four pw.coalesce calls.
DEFAULT_FUEL_LEVEL_PCT == 100
DEFAULT_ENGINE_TEMP_C  == 85
DEFAULT_LOAD_KG        == 0
DEFAULT_IDLE_SECONDS   == 0


\* Mutant: the join condition on vehicle_id is lost.
AnyVehicleCandidates(p, right) ==
    { t \in right : t.timestamp < p.timestamp }

\* Mutant: FORWARD/any-direction candidates (a later reading may be taken).
AnyDirectionCandidates(p, right) ==
    { t \in right : t.vehicle_id = p.vehicle_id }

\* Direction.BACKWARD on gps_table.vehicle_id == telemetry_table.vehicle_id:
\* the right rows of the same vehicle that precede the left row in the
\* join's merged order.  That order sorts by (time, side) with the left side
\* first, so a right row with the left row's own timestamp comes after it
\* and is not a backward candidate.
BackwardCandidates(p, right) ==
    { t \in right : t.vehicle_id = p.vehicle_id /\ t.timestamp < p.timestamp }

\* The right row matched to left row p: the last backward candidate, as a set
\* of at most one row (empty: the right columns are None).
asof_match(p, right) ==
    LET cands == BackwardCandidates(p, right)
    IN  { t \in cands : \A u \in cands : u.timestamp <= t.timestamp }

\* Mutant: the default is lost, an unmatched column reads as zero.
coalesce_zero(m, col, default) ==
    IF m = {} THEN 0 ELSE (CHOOSE t \in m : TRUE)[col]

\* pw.coalesce(telemetry_table.<col>, default) on a left-join result.
coalesce(m, col, default) ==
    IF m = {} THEN default ELSE (CHOOSE t \in m : TRUE)[col]

\* The .select(...) of the join: one output row from a left row and its match.
\* tel_ts records which telemetry row was matched (-1: none); it is not a
\* column of the table, it names the source of the telemetry columns.
select_joined(p, m) ==
    [vehicle_id     |-> p.vehicle_id,
     timestamp      |-> p.timestamp,
     latitude       |-> p.latitude,
     longitude      |-> p.longitude,
     speed_kmh      |-> p.speed_kmh,
     heading        |-> p.heading,
     fuel_level_pct |-> coalesce(m, "fuel_level_pct", DEFAULT_FUEL_LEVEL_PCT),
     engine_temp_c  |-> coalesce(m, "engine_temp_c", DEFAULT_ENGINE_TEMP_C),
     load_kg        |-> coalesce(m, "load_kg", DEFAULT_LOAD_KG),
     idle_seconds   |-> coalesce(m, "idle_seconds", DEFAULT_IDLE_SECONDS),
     tel_ts         |-> coalesce(m, "timestamp", -1)]

\* Mutant: an inner join keeps only the left rows that found a match.
asof_join_inner(left, right) ==
    { <<p, asof_match(p, right)>> : p \in { q \in left : asof_match(q, right) # {} } }

\* gps_table.asof_join(telemetry_table, ..., how=pw.JoinMode.LEFT): every left
\* row, paired with its match.
asof_join(left, right) ==
    { <<p, asof_match(p, right)>> : p \in left }

join_gps_and_telemetry(gps, tel) ==
    { select_joined(pm[1], pm[2]) : pm \in asof_join(gps, tel) }

\* ------------------------------------------------------------------------
\* Emission model: calculate_speed_penalty, calculate_co2_emission, and the
\* emission transform compute_emissions
\* ------------------------------------------------------------------------

\* Emission rates (g/km) and emitted grams are fixed-point numbers with Gram
\* units to the gram.  The unit is fine enough for every product and quotient
\* of the emission model to be an integer: 1/40 g/km per kg of load, times a
\* speed multiplier in 1/800, times the distance 0.1 km.
Gram == 40 * 800 * 10

\* The speed multiplier is a fixed-point number with ONE units to 1.0.
ONE == 800

BASE_EMISSION_FACTOR    == 650 * Gram   \* 650.0 g/km
LOAD_PENALTY_PER_1000KG == 25 * Gram    \* 25.0 g/km per 1000 kg
OPTIMAL_SPEED_MIN       == 400   \* 40.0 km/h, in tenths
OPTIMAL_SPEED_MAX       == 700   \* 70.0 km/h, in tenths
HIGH_SPEED_SPAN         == 500   \* the literal 50.0 km/h, in tenths
SPEED_PENALTY_FACTOR    == 25    \* 2.5, in tenths
STATIONARY_SPEED        == 10    \* the literal 1.0 km/h, in tenths
IDLE_SECONDS_CAP        == 10    \* the literal 10 of min(idle_seconds, 10)
DISTANCE_KM_PER_TEN     == 1     \* distance_km = 0.1, in tenths of km

IDLE_EMISSION_RATE       == 85    \* 8.5 g CO2 per second, in tenths
IDLE_WARNING_SECONDS     == 60
IDLE_CRITICAL_SECONDS    == 120

None == "None"

Min2(a, b) == IF a <= b THEN a ELSE b

\* Mutant: the band is open, a speed on its boundary is penalised.
calculate_speed_penalty_open(speed_kmh) ==
    IF OPTIMAL_SPEED_MIN < speed_kmh /\ speed_kmh < OPTIMAL_SPEED_MAX
    THEN ONE
    ELSE IF speed_kmh <= OPTIMAL_SPEED_MIN
         THEN ONE + ONE \div 100
              + ((OPTIMAL_SPEED_MIN - speed_kmh) * SPEED_PENALTY_FACTOR * ONE)
                \div (OPTIMAL_SPEED_MIN * 10)
         ELSE ONE + ONE \div 100
              + ((speed_kmh - OPTIMAL_SPEED_MAX) * SPEED_PENALTY_FACTOR * ONE)
                \div (HIGH_SPEED_SPAN * 10)

\* calculate_speed_penalty: 1.0 inside [40, 70]; below, 1.0 + deviation/40 *
\* 2.5; above, 1.0 + deviation/50 * 2.5.  Speeds in tenths, result in ONE units.
calculate_speed_penalty(speed_kmh) ==
    IF OPTIMAL_SPEED_MIN <= speed_kmh /\ speed_kmh <= OPTIMAL_SPEED_MAX
    THEN ONE
    ELSE IF speed_kmh < OPTIMAL_SPEED_MIN
         THEN ONE + ((OPTIMAL_SPEED_MIN - speed_kmh) * SPEED_PENALTY_FACTOR * ONE)
                    \div (OPTIMAL_SPEED_MIN * 10)
         ELSE ONE + ((speed_kmh - OPTIMAL_SPEED_MAX) * SPEED_PENALTY_FACTOR * ONE)
                    \div (HIGH_SPEED_SPAN * 10)

\* (load_kg / 1000.0) * LOAD_PENALTY_PER_1000KG, in Gram units.
load_penalty(load_kg) == load_kg * (LOAD_PENALTY_PER_1000KG \div 1000)

\* IDLE_EMISSION_RATE * seconds, in Gram units.
idle_grams(seconds) == IDLE_EMISSION_RATE * seconds * (Gram \div 10)

\* Mutant: the per-reading cap of the idle emissions is lost.
calculate_co2_emission_uncapped(speed_kmh, load_kg, idle_seconds) ==
    IF speed_kmh < STATIONARY_SPEED
    THEN <<idle_grams(idle_seconds), 0>>
    ELSE LET co2_rate == ((BASE_EMISSION_FACTOR + load_penalty(load_kg)) \div ONE)
                         * calculate_speed_penalty(speed_kmh)
         IN  <<(co2_rate * DISTANCE_KM_PER_TEN) \div 10, co2_rate>>

\* Mutant: the speed multiplier is lost.
calculate_co2_emission_flat(speed_kmh, load_kg, idle_seconds) ==
    IF speed_kmh < STATIONARY_SPEED
    THEN <<idle_grams(Min2(idle_seconds, IDLE_SECONDS_CAP)), 0>>
    ELSE LET co2_rate == BASE_EMISSION_FACTOR + load_penalty(load_kg)
         IN  <<(co2_rate * DISTANCE_KM_PER_TEN) \div 10, co2_rate>>

\* Mutant: the load penalty is lost.
calculate_co2_emission_unloaded(speed_kmh, load_kg, idle_seconds) ==
    IF speed_kmh < STATIONARY_SPEED
    THEN <<idle_grams(Min2(idle_seconds, IDLE_SECONDS_CAP)), 0>>
    ELSE LET co2_rate == (BASE_EMISSION_FACTOR \div ONE)
                         * calculate_speed_penalty(speed_kmh)
         IN  <<(co2_rate * DISTANCE_KM_PER_TEN) \div 10, co2_rate>>

\* calculate_co2_emission with the default distance_km: <<co2_grams, co2_rate>>.
calculate_co2_emission(speed_kmh, load_kg, idle_seconds) ==
    IF speed_kmh < STATIONARY_SPEED
    THEN <<idle_grams(Min2(idle_seconds, IDLE_SECONDS_CAP)), 0>>
    ELSE LET co2_rate == ((BASE_EMISSION_FACTOR + load_penalty(load_kg)) \div ONE)
                         * calculate_speed_penalty(speed_kmh)
         IN  <<(co2_rate * DISTANCE_KM_PER_TEN) \div 10, co2_rate>>

\* idle_seconds.clip(0, 10)
clip(x, lo, hi) == IF x < lo THEN lo ELSE IF x > hi THEN hi ELSE x

\* Mutant: every record of the transform carries the HIGH_IDLE kind.
emission_alert_type_always(idle_seconds) == "HIGH_IDLE"

\* The alert_type column of compute_emissions.
emission_alert_type(idle_seconds) ==
    IF idle_seconds >= IDLE_CRITICAL_SECONDS THEN "HIGH_IDLE"
    ELSE IF idle_seconds >= IDLE_WARNING_SECONDS THEN "HIGH_IDLE"
    ELSE None

\* The alert_severity column of compute_emissions.
emission_alert_severity(idle_seconds) ==
    IF idle_seconds >= IDLE_CRITICAL_SECONDS THEN "CRITICAL"
    ELSE IF idle_seconds >= IDLE_WARNING_SECONDS THEN "WARNING"
    ELSE "INFO"

\* The .select(...) of compute_emissions on one VehicleState row: the inline
\* expressions of the transform, which call neither calculate_co2_emission
\* nor determine_alert.
emission_select(r) ==
    [vehicle_id        |-> r.vehicle_id,
     timestamp         |-> r.timestamp,
     latitude          |-> r.latitude,
     longitude         |-> r.longitude,
     speed_kmh         |-> r.speed_kmh,
     co2_grams         |-> IF r.speed_kmh < STATIONARY_SPEED
                           THEN idle_grams(clip(r.idle_seconds, 0, IDLE_SECONDS_CAP))
                           ELSE (BASE_EMISSION_FACTOR + load_penalty(r.load_kg)) \div 10,
     co2_rate_g_per_km |-> IF r.speed_kmh < STATIONARY_SPEED
                           THEN 0
                           ELSE BASE_EMISSION_FACTOR + load_penalty(r.load_kg),
     alert_type        |-> emission_alert_type(r.idle_seconds),
     alert_severity    |-> emission_alert_severity(r.idle_seconds)]

\* compute_emissions(vehicle_state): one EmissionRecord per VehicleState row.
compute_emissions(table) == { emission_select(r) : r \in table }

\* ------------------------------------------------------------------------
\* SpecFusion
\* ------------------------------------------------------------------------
InitFusionVars ==
    /\ gps_table = {}
    /\ telemetry_table = {}
    /\ vehicle_state = {}
    /\ retracted = {}
    /\ emitted = [v \in Vehicles |-> <<>>]

\* A stream is monotonic per vehicle: a new event is later than every event
\* of the same vehicle already in its table.
Later(v, t, table) ==
    \A e \in table : e.vehicle_id = v => e.timestamp < t

\* The output stream of compute_emissions, per vehicle: every update of the
\* emission table appends the batch of the records it inserts, named by their
\* timestamps (the order inside one batch is not determined).
Emit(before, after) ==
    [v \in Vehicles |->
        LET batch == {e.timestamp : e \in {x \in after \ before : x.vehicle_id = v}}
        IN  IF batch = {} THEN emitted[v] ELSE Append(emitted[v], batch)]


\* Mutant: the joined table is append-only: a position is fused with what is
\* known when it arrives and its row is never revised.
RefreshAppendOnly(gps, tel) ==
    /\ vehicle_state' = vehicle_state \cup
           { r \in join_gps_and_telemetry(gps, tel) :
               \A o \in vehicle_state :
                   o.vehicle_id # r.vehicle_id \/ o.timestamp # r.timestamp }
    /\ retracted' = retracted
    /\ emitted' = Emit(compute_emissions(vehicle_state), compute_emissions(vehicle_state'))

\* The joined table is maintained: after every input row it is the join of
\* the two tables, and the rows that left it have been retracted.
Refresh(gps, tel) ==
    /\ vehicle_state' = join_gps_and_telemetry(gps, tel)
    /\ retracted' = retracted \cup (vehicle_state \ join_gps_and_telemetry(gps, tel))
    /\ emitted' = Emit(compute_emissions(vehicle_state),
                       compute_emissions(join_gps_and_telemetry(gps, tel)))

\* GPSStreamSubject.run: self.next(vehicle_id=..., timestamp=..., ...)
GpsArrive ==
    \E v \in Vehicles, t \in 0..MaxTime :
        /\ Cardinality(gps_table) < MaxGps
        /\ Later(v, t, gps_table)
        /\ gps_table' = gps_table \cup {GPSEvent(v, t, GpsReadingAt(v, t))}
        /\ telemetry_table' = telemetry_table
        /\ Refresh(gps_table', telemetry_table')
        /\ UNCHANGED <<alertVars, windowVars, emissionVars, telemetryVars, simVars>>

\* TelemetryStreamSubject.run: self.next(vehicle_id=..., timestamp=..., ...)
TelemetryArrive ==
    \E v \in Vehicles, t \in 0..MaxTime, r \in TelemetryReadings :
        /\ Cardinality(telemetry_table) < MaxTel
        /\ Later(v, t, telemetry_table)
        /\ telemetry_table' = telemetry_table \cup {TelemetryEvent(v, t, r)}
        /\ gps_table' = gps_table
        /\ Refresh(gps_table', telemetry_table')
        /\ UNCHANGED <<alertVars, windowVars, emissionVars, telemetryVars, simVars>>


\* ------------------------------------------------------------------------
\* Alert classifier: determine_alert
\* ------------------------------------------------------------------------
MaxIdle == 150      \* classifier: idle_seconds ranges over 0..MaxIdle

EMISSION_SPIKE_THRESHOLD == 35 * Gram   \* 35.0 g/km
SPIKE_SPEED_GATE         == 50    \* the literal 5.0 km/h, in tenths

\* f"{x:.1f}" of a value given in tenths: integer part and one decimal digit.
Format1f(tenths) == [int |-> tenths \div 10, frac |-> tenths % 10]

\* A rate in Gram units rounded to tenths, as :.1f rounds it.
RoundTenths(x) == (x + Gram \div 20) \div (Gram \div 10)

\* The three f-strings and the None message.
CriticalIdleMessage(vehicle_id, idle_seconds) ==
    [text         |-> "has been idling for ... Estimated waste: ...g CO2",
     vehicle_id   |-> vehicle_id,
     idle_seconds |-> idle_seconds,
     waste        |-> Format1f(idle_seconds * IDLE_EMISSION_RATE)]

WarningIdleMessage(vehicle_id, idle_seconds) ==
    [text         |-> "idling for ... Approaching BS-VI idle limit.",
     vehicle_id   |-> vehicle_id,
     idle_seconds |-> idle_seconds]

SpikeMessage(vehicle_id, co2_rate) ==
    [text       |-> "emission rate ...g/km exceeds optimal threshold.",
     vehicle_id |-> vehicle_id,
     co2_rate   |-> Format1f(RoundTenths(co2_rate))]

NoMessage == [text |-> None]

\* Mutant: the critical threshold compared with > instead of >=.
determine_alert_strict(speed_kmh, idle_seconds, co2_rate, vehicle_id) ==
    IF idle_seconds > IDLE_CRITICAL_SECONDS
    THEN <<"HIGH_IDLE", "CRITICAL", CriticalIdleMessage(vehicle_id, idle_seconds)>>
    ELSE IF idle_seconds >= IDLE_WARNING_SECONDS
    THEN <<"HIGH_IDLE", "WARNING", WarningIdleMessage(vehicle_id, idle_seconds)>>
    ELSE IF co2_rate > EMISSION_SPIKE_THRESHOLD /\ speed_kmh > SPIKE_SPEED_GATE
    THEN <<"EMISSION_SPIKE", "WARNING", SpikeMessage(vehicle_id, co2_rate)>>
    ELSE <<None, "INFO", NoMessage>>

\* Mutant: the emission spike checked before the idle warning.
determine_alert_spike_first(speed_kmh, idle_seconds, co2_rate, vehicle_id) ==
    IF idle_seconds >= IDLE_CRITICAL_SECONDS
    THEN <<"HIGH_IDLE", "CRITICAL", CriticalIdleMessage(vehicle_id, idle_seconds)>>
    ELSE IF co2_rate > EMISSION_SPIKE_THRESHOLD /\ speed_kmh > SPIKE_SPEED_GATE
    THEN <<"EMISSION_SPIKE", "WARNING", SpikeMessage(vehicle_id, co2_rate)>>
    ELSE IF idle_seconds >= IDLE_WARNING_SECONDS
    THEN <<"HIGH_IDLE", "WARNING", WarningIdleMessage(vehicle_id, idle_seconds)>>
    ELSE <<None, "INFO", NoMessage>>


\* Mutant: the spike rule is lost, only the two idle rules remain.
determine_alert_idle_only(speed_kmh, idle_seconds, co2_rate, vehicle_id) ==
    IF idle_seconds >= IDLE_CRITICAL_SECONDS
    THEN <<"HIGH_IDLE", "CRITICAL", CriticalIdleMessage(vehicle_id, idle_seconds)>>
    ELSE IF idle_seconds >= IDLE_WARNING_SECONDS
    THEN <<"HIGH_IDLE", "WARNING", WarningIdleMessage(vehicle_id, idle_seconds)>>
    ELSE <<None, "INFO", NoMessage>>

\* Mutant: the spike rule compared with >= instead of >.
determine_alert_spike_inclusive(speed_kmh, idle_seconds, co2_rate, vehicle_id) ==
    IF idle_seconds >= IDLE_CRITICAL_SECONDS
    THEN <<"HIGH_IDLE", "CRITICAL", CriticalIdleMessage(vehicle_id, idle_seconds)>>
    ELSE IF idle_seconds >= IDLE_WARNING_SECONDS
    THEN <<"HIGH_IDLE", "WARNING", WarningIdleMessage(vehicle_id, idle_seconds)>>
    ELSE IF co2_rate >= EMISSION_SPIKE_THRESHOLD /\ speed_kmh >= SPIKE_SPEED_GATE
    THEN <<"EMISSION_SPIKE", "WARNING", SpikeMessage(vehicle_id, co2_rate)>>
    ELSE <<None, "INFO", NoMessage>>

\* (alert_type, severity, message)
determine_alert(speed_kmh, idle_seconds, co2_rate, vehicle_id) ==
    IF idle_seconds >= IDLE_CRITICAL_SECONDS
    THEN <<"HIGH_IDLE", "CRITICAL", CriticalIdleMessage(vehicle_id, idle_seconds)>>
    ELSE IF idle_seconds >= IDLE_WARNING_SECONDS
    THEN <<"HIGH_IDLE", "WARNING", WarningIdleMessage(vehicle_id, idle_seconds)>>
    ELSE IF co2_rate > EMISSION_SPIKE_THRESHOLD /\ speed_kmh > SPIKE_SPEED_GATE
    THEN <<"EMISSION_SPIKE", "WARNING", SpikeMessage(vehicle_id, co2_rate)>>
    ELSE <<None, "INFO", NoMessage>>

\* ------------------------------------------------------------------------
\* SpecAlert
\* ------------------------------------------------------------------------
\* Speeds (tenths of km/h) and rates (Gram units) around the comparisons.
SpeedSamples == {0, 49, 50, 51, 450}
RateSamples  == {0, 35 * Gram - 1, 35 * Gram, 35 * Gram + 1, 650 * Gram}

NoResult == <<>>

Readings ==
    [speed_kmh : SpeedSamples, idle_seconds : 0..MaxIdle,
     co2_rate : RateSamples, vehicle_id : Vehicles]

InitAlertVars ==
    /\ reading = [speed_kmh |-> 0, idle_seconds |-> 0, co2_rate |-> 0,
                  vehicle_id |-> "TRK-101"]
    /\ alert = NoResult

\* compute_alert_udf: one call of determine_alert on one reading.
Classify ==
    /\ alert = NoResult
    /\ alert' = determine_alert(reading.speed_kmh, reading.idle_seconds,
                                reading.co2_rate, reading.vehicle_id)
    /\ reading' = reading
    /\ UNCHANGED <<fusionVars, windowVars, emissionVars, telemetryVars, simVars>>


\* ------------------------------------------------------------------------
\* Rolling window aggregator: compute_rolling_efficiency
\* ------------------------------------------------------------------------
MaxRows == 3        \* windows: at most this many emission rows arrive

WINDOW_DURATION == 300   \* timedelta(minutes=5), in seconds
CUTOFF          == 30    \* timedelta(seconds=30), in seconds

\* Timestamps (seconds) of the arriving rows: two in the first bucket, the
\* last instant at which the first bucket is still open, the first instant
\* at which it is closed, and one that closes the second bucket.
TimePoints == {10, 200, 330, 331, 700}

\* Columns of an emission row besides vehicle and time: a moving reading
\* (45.0 km/h, 650.0 g/km, 65.0 g) and an idling one (85.0 g), in tenths.
EmissionReadings ==
    { [speed_kmh |-> 450, co2_rate_g_per_km |-> 6500, co2_grams |-> 650, idle_seconds |-> 0],
      [speed_kmh |-> 0,   co2_rate_g_per_km |-> 0,    co2_grams |-> 850, idle_seconds |-> 150] }

\* An emission row.  id is the row's key (rows are numbered as they arrive);
\* arrived_at is the operator's clock when the row arrived.  The row carries
\* the columns the reduction reads; idle_seconds is one of them, although
\* EmissionRecord and the select of compute_emissions do not have it.
EmissionRow(id, v, t, e, now) ==
    [id |-> id, vehicle_id |-> v, timestamp |-> t,
     speed_kmh |-> e.speed_kmh, co2_rate_g_per_km |-> e.co2_rate_g_per_km,
     co2_grams |-> e.co2_grams, idle_seconds |-> e.idle_seconds,
     arrived_at |-> now]

\* pw.temporal.tumbling(duration=window_duration): the start of the window a
\* timestamp falls in; the window is [start, start + duration).
tumbling(timestamp) == (timestamp \div WINDOW_DURATION) * WINDOW_DURATION

\* common_behavior(cutoff=...): a window stops taking rows once it ends
\* earlier than the largest time seen minus the cutoff.
IsClosed(start, now) == start + WINDOW_DURATION + CUTOFF < now

Max2(a, b) == IF a >= b THEN a ELSE b

RECURSIVE SumOf(_, _)
SumOf(rows, col) ==
    IF rows = {} THEN 0
    ELSE LET r == CHOOSE x \in rows : TRUE
         IN  r[col] + SumOf(rows \ {r}, col)

MinOf(rows, col) == CHOOSE x \in {r[col] : r \in rows} : \A y \in {r[col] : r \in rows} : x <= y
MaxOf(rows, col) == CHOOSE x \in {r[col] : r \in rows} : \A y \in {r[col] : r \in rows} : x >= y

\* pw.reducers.avg: the sum over the count (fixed point, truncated).
AvgOf(rows, col) == SumOf(rows, col) \div Cardinality(rows)


\* Mutant: the summary is attributed to a fixed vehicle, whether or not the
\* window holds a row of it.
reduce_fixed_vehicle(rows, any_vehicle) ==
    [vehicle_id      |-> "TRK-101",
     window_start    |-> MinOf(rows, "timestamp"),
     window_end      |-> MaxOf(rows, "timestamp"),
     avg_co2_rate    |-> AvgOf(rows, "co2_rate_g_per_km"),
     total_co2_grams |-> SumOf(rows, "co2_grams"),
     avg_speed       |-> AvgOf(rows, "speed_kmh"),
     max_idle        |-> MaxOf(rows, "idle_seconds"),
     reading_count   |-> Cardinality(rows)]

\* Mutant: max_idle reduced with min instead of max.
reduce_min_idle(rows, any_vehicle) ==
    [vehicle_id      |-> any_vehicle,
     window_start    |-> MinOf(rows, "timestamp"),
     window_end      |-> MaxOf(rows, "timestamp"),
     avg_co2_rate    |-> AvgOf(rows, "co2_rate_g_per_km"),
     total_co2_grams |-> SumOf(rows, "co2_grams"),
     avg_speed       |-> AvgOf(rows, "speed_kmh"),
     max_idle        |-> MinOf(rows, "idle_seconds"),
     reading_count   |-> Cardinality(rows)]

\* .reduce(...) over the rows of one window.  pw.reducers.any returns the
\* vehicle_id of some row of the window: any_vehicle is that choice.
reduce(rows, any_vehicle) ==
    [vehicle_id      |-> any_vehicle,
     window_start    |-> MinOf(rows, "timestamp"),
     window_end      |-> MaxOf(rows, "timestamp"),
     avg_co2_rate    |-> AvgOf(rows, "co2_rate_g_per_km"),
     total_co2_grams |-> SumOf(rows, "co2_grams"),
     avg_speed       |-> AvgOf(rows, "speed_kmh"),
     max_idle        |-> MaxOf(rows, "idle_seconds"),
     reading_count   |-> Cardinality(rows)]

\* Rows of the emissions table folded into the window that starts at start.
RowsOf(start, table, bks) == {r \in table : r.id \in bks[start]}

InitWindowVars ==
    /\ emissions = {}
    /\ max_time = 0
    /\ buckets = <<>>
    /\ windowed = <<>>
    /\ stopped = FALSE

\* Mutant: the cutoff is not applied, every row is folded.
AcceptsAlways(start, now) == TRUE

\* The window that starts at start still takes rows when the clock is now.
Accepts(start, now) == ~IsClosed(start, now)

\* A row arrives while its window is open: windowby(emissions.timestamp, ...)
\* groups by the window alone (no instance), the row is folded and the
\* window's output row is recomputed at once (the behavior sets no delay).
FoldRow ==
    \E v \in Vehicles, t \in TimePoints, e \in EmissionReadings :
        LET id    == Cardinality(emissions) + 1
            row   == EmissionRow(id, v, t, e, max_time)
            start == tumbling(t)
            ids   == IF start \in DOMAIN buckets THEN buckets[start] ELSE {}
            bks   == [s \in DOMAIN buckets \cup {start} |->
                         IF s = start THEN ids \cup {id} ELSE buckets[s]]
            rows  == RowsOf(start, emissions \cup {row}, bks)
        IN  /\ ~stopped
            /\ Cardinality(emissions) < MaxRows
            /\ Accepts(start, max_time)
            /\ emissions' = emissions \cup {row}
            /\ max_time' = Max2(max_time, t)
            /\ buckets' = bks
            /\ \E any_vehicle \in {r.vehicle_id : r \in rows} :
                   windowed' = [s \in DOMAIN bks |->
                                   IF s = start THEN reduce(rows, any_vehicle)
                                   ELSE windowed[s]]
            /\ stopped' = stopped
            /\ UNCHANGED <<fusionVars, alertVars, emissionVars, telemetryVars, simVars>>

\* A row arrives after its window closed: it is ignored.
DropLateRow ==
    \E v \in Vehicles, t \in TimePoints, e \in EmissionReadings :
        LET id    == Cardinality(emissions) + 1
            row   == EmissionRow(id, v, t, e, max_time)
        IN  /\ ~stopped
            /\ Cardinality(emissions) < MaxRows
            /\ ~Accepts(tumbling(t), max_time)
            /\ emissions' = emissions \cup {row}
            /\ max_time' = Max2(max_time, t)
            /\ UNCHANGED <<buckets, windowed, stopped>>
            /\ UNCHANGED <<fusionVars, alertVars, emissionVars, telemetryVars, simVars>>

\* Mutant: stopping withdraws the summaries of the buckets that are open.
at_stop_closed_only(summaries, now) ==
    [s \in {u \in DOMAIN summaries : IsClosed(u, now)} |-> summaries[s]]

\* The output table when the process that runs pw.run() ends: the pipeline
\* has no shutdown step, and the window operator holds nothing back (its
\* behavior sets no delay), so the table is what had been produced.
at_stop(summaries, now) == summaries

\* The process is stopped: pw.run() and the connector threads end with it.
Stop ==
    /\ ~stopped
    /\ stopped' = TRUE
    /\ windowed' = at_stop(windowed, max_time)
    /\ UNCHANGED <<emissions, max_time, buckets>>
    /\ UNCHANGED <<fusionVars, alertVars, emissionVars, telemetryVars, simVars>>

\* ------------------------------------------------------------------------
\* SpecEmission
\* ------------------------------------------------------------------------
MaxLoadSteps == 5   \* emission model: loads range over 0..MaxLoadSteps x 500 kg

\* Speeds (tenths of km/h) around the stationary test, the spike gate and the
\* two ends of the optimal band.
EmissionSpeeds == {0, 9, 10, 49, 50, 51, 200, 399, 400, 450, 700, 701, 900}

\* Loads in whole kilograms (the telemetry source rounds load_kg to 0
\* decimals), and two negative loads, which the schema's float admits.
EmissionLoads == {-30000, -1000} \cup {500 * l : l \in 0..MaxLoadSteps}

\* Idle durations (seconds) around the cap and the two alert thresholds, and
\* a negative one, which the schema's int admits.
EmissionIdles == {-5, 0, 5, 10, 11, 59, 60, 119, 120, 150}

\* A VehicleState row with the columns the emission transform reads.
VehicleState(v, speed_kmh, load_kg, idle_seconds) ==
    [vehicle_id   |-> v,
     timestamp    |-> 0,
     latitude     |-> GpsReadingAt(v, 0).latitude,
     longitude    |-> GpsReadingAt(v, 0).longitude,
     speed_kmh    |-> speed_kmh,
     load_kg      |-> load_kg,
     idle_seconds |-> idle_seconds]

VehicleStates ==
    { VehicleState(v, s, l, i) :
        v \in Vehicles, s \in EmissionSpeeds, l \in EmissionLoads, i \in EmissionIdles }

InitEmissionVars ==
    /\ vstate = VehicleState("TRK-101", 0, 0, 0)
    /\ penalty = NoResult
    /\ co2 = NoResult
    /\ record = NoResult

\* One call of calculate_speed_penalty on the row's speed.
ApplySpeedPenalty ==
    /\ penalty = NoResult
    /\ penalty' = <<calculate_speed_penalty(vstate.speed_kmh)>>
    /\ UNCHANGED <<vstate, co2, record>>
    /\ UNCHANGED <<fusionVars, alertVars, windowVars, telemetryVars, simVars>>

\* compute_emissions_udf: one call of calculate_co2_emission on the row.
CalculateCo2 ==
    /\ co2 = NoResult
    /\ co2' = calculate_co2_emission(vstate.speed_kmh, vstate.load_kg,
                                     vstate.idle_seconds)
    /\ UNCHANGED <<vstate, penalty, record>>
    /\ UNCHANGED <<fusionVars, alertVars, windowVars, telemetryVars, simVars>>

\* compute_alert_udf on the row and the rate calculate_co2_emission returned.
ClassifyRate ==
    /\ co2 # NoResult
    /\ alert = NoResult
    /\ reading' = [speed_kmh |-> vstate.speed_kmh,
                   idle_seconds |-> vstate.idle_seconds,
                   co2_rate |-> co2[2], vehicle_id |-> vstate.vehicle_id]
    /\ alert' = determine_alert(vstate.speed_kmh, vstate.idle_seconds,
                                co2[2], vstate.vehicle_id)
    /\ UNCHANGED <<fusionVars, windowVars, emissionVars, telemetryVars, simVars>>

\* compute_emissions on a table that holds the row.
ComputeEmissions ==
    /\ record = NoResult
    /\ record' = <<CHOOSE e \in compute_emissions({vstate}) : TRUE>>
    /\ UNCHANGED <<vstate, penalty, co2>>
    /\ UNCHANGED <<fusionVars, alertVars, windowVars, telemetryVars, simVars>>


\* ------------------------------------------------------------------------
\* Telemetry source: TelemetryStreamSubject
\* ------------------------------------------------------------------------
MaxUpdates == 5     \* telemetry source: rounds of the run loop

\* STREAM_INTERVAL = 2.0 seconds, in tenths: the interval the pipeline gives
\* both connector subjects (and the default of their constructors).
STREAM_INTERVAL == 20

\* int(x) of a non-negative number of seconds given in tenths.
int(tenths) == tenths \div 10

\* Mutant: the idle counter is not reset by an update that is not idle.
update_idle_no_reset(idle_seconds, is_idle) ==
    IF is_idle THEN idle_seconds + STREAM_INTERVAL ELSE idle_seconds

\* The idle tracking of _update_telemetry: state["idle_seconds"] after the
\* update, in tenths of a second.
update_idle(idle_seconds, is_idle) ==
    IF is_idle THEN idle_seconds + STREAM_INTERVAL ELSE 0

\* _update_telemetry(vid, is_idle): the new state of the vehicle.  The fuel,
\* temperature and load of the state neither read nor write the idle tracking;
\* they are the payload r of the event.
update_telemetry(state, is_idle) ==
    [idle_seconds |-> update_idle(state.idle_seconds, is_idle),
     is_idle      |-> is_idle]

\* The event self.next(...) emits for vehicle v in round n; is_idle is not a
\* column of the event, it records the draw the event was produced under.
SentEvent(v, n, state, r) ==
    [vehicle_id     |-> v,
     timestamp      |-> n,
     fuel_level_pct |-> r.fuel_level_pct,
     engine_temp_c  |-> r.engine_temp_c,
     load_kg        |-> r.load_kg,
     idle_seconds   |-> int(state.idle_seconds),
     is_idle        |-> state.is_idle]

\* _init_telemetry
InitTelemetryVars ==
    /\ vehicle_telemetry = [v \in Vehicles |-> [idle_seconds |-> 0, is_idle |-> FALSE]]
    /\ sent = [v \in Vehicles |-> <<>>]

\* One round of TelemetryStreamSubject.run: for every vehicle, draw is_idle,
\* update its state and emit the event.
TelemetryRound ==
    \E draw \in [Vehicles -> BOOLEAN], r \in TelemetryReadings :
        LET n == Len(sent["TRK-101"]) + 1
        IN  /\ n <= MaxUpdates
            /\ vehicle_telemetry' =
                   [v \in Vehicles |-> update_telemetry(vehicle_telemetry[v], draw[v])]
            /\ sent' = [v \in Vehicles |->
                           Append(sent[v],
                                  SentEvent(v, n, update_telemetry(vehicle_telemetry[v], draw[v]), r))]
            /\ UNCHANGED <<fusionVars, alertVars, windowVars, emissionVars, simVars>>


\* ------------------------------------------------------------------------
\* Fleet simulator: FleetSimulator
\* ------------------------------------------------------------------------
\* next_tick treats every truck of self.routes by itself; the state holds the
\* entry of one truck, any of the two kinds _generate_routes creates (one
\* that starts MOVING, one that starts IDLE).  Speeds and idle_seconds are in
\* tenths; lat and lng are offsets from the base position in steps of 0.002
\* degrees.  tick_count, which only paces the logging, is not represented.
MaxSimIdle == 1215  \* simulator: no tick once idle_seconds (tenths) reaches this

IDLE_STEP        == 5      \* idle_seconds += 0.5, in tenths
SIM_IDLE_LIMIT   == 1200   \* the literal 120 of idle_seconds > 120, in tenths
SIM_SPEED_MIN    == 200    \* max(20, ...), in tenths
SIM_SPEED_MAX    == 700    \* min(70, ...), in tenths
SIM_IDLE_SPEED   == 50     \* the literal 5 of speed < 5, in tenths
SIM_CO2_MAX      == 1500   \* min(1500, ...)
SIM_CO2_MIN      == 350    \* max(350, ...)
SIM_CO2_CRITICAL == 1000   \* co2 > 1000
SIM_CO2_HIGH     == 800    \* co2 > 800

\* Draws of random.uniform(-0.002, 0.002), random.uniform(-5, 5),
\* random.randint(50, 150) and random.randint(5, 15).
PositionDraws == {-1, 1}
SpeedDraws    == {-50, 50}
SpikeDraws    == {50, 150}
ImproveDraws  == {10}

\* The offsets a truck is let to reach: the position draws are those that
\* keep it on these.
RouteCells == {0, 1}

\* _generate_routes: TRK-101 (MOVING, co2 450, speed drawn from 30..60) and
\* TRK-104 (IDLE, co2 850, speed 0).
InitialTrucks ==
    { [id |-> "TRK-101", lat |-> 0, lng |-> 0, status |-> "MOVING", co2 |-> 450,
       speed |-> 450, idle_seconds |-> 0],
      [id |-> "TRK-104", lat |-> 0, lng |-> 0, status |-> "IDLE", co2 |-> 850,
       speed |-> 0, idle_seconds |-> 0] }

\* "Simulate movement": a MOVING truck changes position and speed and is not
\* idle; any other truck idles half a second more.
simulate_movement(t, dlat, dlng, dspeed) ==
    IF t.status = "MOVING"
    THEN [t EXCEPT !.lat = @ + dlat,
                   !.lng = @ + dlng,
                   !.speed = Max2(SIM_SPEED_MIN, Min2(SIM_SPEED_MAX, @ + dspeed)),
                   !.idle_seconds = 0]
    ELSE [t EXCEPT !.idle_seconds = @ + IDLE_STEP]

\* Mutant: no branch for the long idle.
status_change_no_idle(t, spike, rise, fall) ==
    IF spike
    THEN LET c == Min2(SIM_CO2_MAX, t.co2 + rise)
         IN  <<[t EXCEPT !.co2 = c, !.status = "WARNING"],
               {[type |-> "EMISSION_SPIKE", severity |-> "WARNING", co2 |-> c]}>>
    ELSE IF t.co2 > SIM_CO2_CRITICAL
    THEN <<[t EXCEPT !.status = "CRITICAL"],
           {[type |-> "HIGH_EMISSION", severity |-> "CRITICAL", co2 |-> t.co2]}>>
    ELSE <<[t EXCEPT !.co2 = Max2(SIM_CO2_MIN, t.co2 - fall),
                     !.status = IF t.speed < SIM_IDLE_SPEED THEN "IDLE" ELSE "MOVING"],
           {}>>

\* "Random status changes": the truck after the branch and the alert_info of
\* the branch, as a set of at most one record (empty: alert_info is None).
\* spike is the draw random.random() > 0.97.
status_change(t, spike, rise, fall) ==
    IF spike
    THEN LET c == Min2(SIM_CO2_MAX, t.co2 + rise)
         IN  <<[t EXCEPT !.co2 = c, !.status = "WARNING"],
               {[type |-> "EMISSION_SPIKE", severity |-> "WARNING", co2 |-> c]}>>
    ELSE IF t.idle_seconds > SIM_IDLE_LIMIT
    THEN LET st == IF t.co2 > SIM_CO2_HIGH THEN "CRITICAL" ELSE "WARNING"
         IN  <<[t EXCEPT !.status = st],
               {[type |-> "HIGH_IDLE", severity |-> st,
                 idle_seconds |-> t.idle_seconds \div 10]}>>
    ELSE IF t.co2 > SIM_CO2_CRITICAL
    THEN <<[t EXCEPT !.status = "CRITICAL"],
           {[type |-> "HIGH_EMISSION", severity |-> "CRITICAL", co2 |-> t.co2]}>>
    ELSE <<[t EXCEPT !.co2 = Max2(SIM_CO2_MIN, t.co2 - fall),
                     !.status = IF t.speed < SIM_IDLE_SPEED THEN "IDLE" ELSE "MOVING"],
           {}>>

\* The alerts list next_tick returns, for one alert_info.
alert_list(t, alert_info) ==
    {[vehicle_id |-> t.id, type |-> a.type, severity |-> a.severity,
      lat |-> t.lat, lng |-> t.lng] : a \in alert_info}

\* FleetSimulator.__init__
InitSimVars ==
    /\ truck = [id |-> "TRK-101", lat |-> 0, lng |-> 0, status |-> "MOVING",
                co2 |-> 450, speed |-> 450, idle_seconds |-> 0]
    /\ alerts = {}

\* FleetSimulator.next_tick, for one truck.  The movement draws are made only
\* for a truck whose status is MOVING and the spike amount only on a spike, as
\* in the code.
next_tick ==
    \E spike \in BOOLEAN, fall \in ImproveDraws :
    \E dlat   \in (IF truck.status = "MOVING" THEN PositionDraws ELSE {0}),
       dlng   \in (IF truck.status = "MOVING" THEN PositionDraws ELSE {0}),
       dspeed \in (IF truck.status = "MOVING" THEN SpeedDraws ELSE {0}),
       rise   \in (IF spike THEN SpikeDraws ELSE {0}) :
        LET moved   == simulate_movement(truck, dlat, dlng, dspeed)
            changed == status_change(moved, spike, rise, fall)
        IN  /\ truck.idle_seconds < MaxSimIdle
            /\ moved.lat \in RouteCells /\ moved.lng \in RouteCells
            /\ truck' = changed[1]
            /\ alerts' = alert_list(changed[1], changed[2])
            /\ UNCHANGED <<fusionVars, alertVars, windowVars, emissionVars, telemetryVars>>

\* ------------------------------------------------------------------------
\* Specifications
\* ------------------------------------------------------------------------
InitFusion ==
    /\ InitFusionVars /\ InitAlertVars /\ InitWindowVars /\ InitEmissionVars
    /\ InitTelemetryVars /\ InitSimVars
NextFusion == TelemetryArrive \/ GpsArrive
SpecFusion == InitFusion /\ [][NextFusion]_vars

InitAlert ==
    /\ InitFusionVars /\ InitWindowVars /\ InitEmissionVars
    /\ InitTelemetryVars /\ InitSimVars
    /\ reading \in Readings
    /\ alert = NoResult
NextAlert == Classify
SpecAlert == InitAlert /\ [][NextAlert]_vars

InitWindow ==
    /\ InitFusionVars /\ InitAlertVars /\ InitWindowVars /\ InitEmissionVars
    /\ InitTelemetryVars /\ InitSimVars
NextWindow == FoldRow \/ DropLateRow \/ Stop
SpecWindow == InitWindow /\ [][NextWindow]_vars

InitEmission ==
    /\ InitFusionVars /\ InitAlertVars /\ InitWindowVars
    /\ InitTelemetryVars /\ InitSimVars
    /\ vstate \in VehicleStates
    /\ penalty = NoResult
    /\ co2 = NoResult
    /\ record = NoResult
InitTelemetry ==
    /\ InitFusionVars /\ InitAlertVars /\ InitWindowVars /\ InitEmissionVars
    /\ InitTelemetryVars /\ InitSimVars
NextTelemetry == TelemetryRound
SpecTelemetry == InitTelemetry /\ [][NextTelemetry]_vars

InitSim ==
    /\ InitFusionVars /\ InitAlertVars /\ InitWindowVars /\ InitEmissionVars
    /\ InitTelemetryVars
    /\ truck \in InitialTrucks
    /\ alerts = {}
NextSim == next_tick
SpecSim == InitSim /\ [][NextSim]_vars

NextEmission == ApplySpeedPenalty \/ CalculateCo2 \/ ClassifyRate \/ ComputeEmissions
SpecEmission == InitEmission /\ [][NextEmission]_vars


\* ------------------------------------------------------------------------
\* Claims about stream fusion (SpecFusion)
\* ------------------------------------------------------------------------
RowsFor(p) ==
    {r \in vehicle_state : r.vehicle_id = p.vehicle_id /\ r.timestamp = p.timestamp}

TelemetryOf(v) == {t \in telemetry_table : t.vehicle_id = v}

\* The telemetry columns of fused row r are those of telemetry event t.
FieldsFrom(r, t) ==
    /\ r.fuel_level_pct = t.fuel_level_pct
    /\ r.engine_temp_c = t.engine_temp_c
    /\ r.load_kg = t.load_kg
    /\ r.idle_seconds = t.idle_seconds

FieldsDefault(r) ==
    /\ r.fuel_level_pct = 100
    /\ r.engine_temp_c = 85
    /\ r.load_kg = 0
    /\ r.idle_seconds = 0

PositionKept(r, p) ==
    /\ r.vehicle_id = p.vehicle_id /\ r.timestamp = p.timestamp
    /\ r.latitude = p.latitude /\ r.longitude = p.longitude
    /\ r.speed_kmh = p.speed_kmh /\ r.heading = p.heading

C2_Causality ==
    \A r \in vehicle_state :
        \/ r.tel_ts = -1 /\ FieldsDefault(r)
        \/ \E t \in TelemetryOf(r.vehicle_id) :
               /\ t.timestamp = r.tel_ts
               /\ t.timestamp <= r.timestamp
               /\ FieldsFrom(r, t)

\* C2 witness: a fused state took an earlier telemetry event although a later
\* one of the same vehicle is in the telemetry table.
C2_Witness ==
    \E r \in vehicle_state :
        /\ r.tel_ts # -1
        /\ \E t \in TelemetryOf(r.vehicle_id) : t.timestamp > r.timestamp

\* C3 (as claimed): whenever a telemetry event of the vehicle with timestamp
\* <= the position's timestamp is known, the fused state uses the one with the
\* greatest such timestamp, an equal timestamp being eligible.
C3_MatchRuleClaim ==
    \A p \in gps_table :
        LET known == {t \in TelemetryOf(p.vehicle_id) : t.timestamp <= p.timestamp}
        IN  known # {} =>
                \A r \in RowsFor(p) :
                    \E t \in known :
                        /\ \A u \in known : u.timestamp <= t.timestamp
                        /\ r.tel_ts = t.timestamp
                        /\ FieldsFrom(r, t)

\* C4: missing telemetry is resolved by defaults.  When no telemetry event of
\* the vehicle with timestamp <= the position's exists, the fused state has
\* fuel 100, engine temperature 85, load 0 and idle 0, and the position's own
\* fields unchanged.
C4_Defaults ==
    \A p \in gps_table :
        {t \in TelemetryOf(p.vehicle_id) : t.timestamp <= p.timestamp} = {} =>
            /\ RowsFor(p) # {}
            /\ \A r \in RowsFor(p) : FieldsDefault(r) /\ PositionKept(r, p)

\* C4 witness: a vehicle that never sent telemetry has two position events
\* fused while the other vehicle did send telemetry.
C4_Witness ==
    \E v \in Vehicles :
        /\ TelemetryOf(v) = {}
        /\ telemetry_table # {}
        /\ Cardinality({r \in vehicle_state : r.vehicle_id = v}) = 2

GpsOf(v) == {p \in gps_table : p.vehicle_id = v}

\* The fused states of vehicle v.
FusedOf(v) == {r \in vehicle_state : r.vehicle_id = v}

PositionTimes(v) == {p.timestamp : p \in {q \in gps_table : q.vehicle_id = v}}

NthPositionTime(v, i) ==
    CHOOSE t \in PositionTimes(v) :
        Cardinality({u \in PositionTimes(v) : u < t}) = i - 1

\* The records of vehicle v in the table compute_emissions maintains.
EmissionRecordsOf(v) ==
    {e \in compute_emissions(vehicle_state) : e.vehicle_id = v}

\* The place in vehicle v's output stream where timestamp t first appears.
FirstEmitted(v, t) ==
    CHOOSE i \in 1..Len(emitted[v]) :
        /\ t \in emitted[v][i]
        /\ \A j \in 1..(i - 1) : t \notin emitted[v][j]

C9_CriticalIdle ==
    (alert # NoResult /\ reading.idle_seconds >= 120) =>
        /\ alert[1] = "HIGH_IDLE"
        /\ alert[2] = "CRITICAL"
        /\ alert[3] # NoMessage
        /\ alert[3].idle_seconds = reading.idle_seconds
        /\ 10 * alert[3].waste.int + alert[3].waste.frac = 85 * reading.idle_seconds
        /\ alert[3].waste.frac \in 0..9

\* C9 witness: idle 150 at speed 45.0 and rate 650.0 classified, 1275.0 g.
C9_Witness ==
    /\ alert # NoResult
    /\ reading.idle_seconds = 150
    /\ reading.speed_kmh = 450
    /\ reading.co2_rate = 650 * Gram
    /\ alert[3].waste = [int |-> 1275, frac |-> 0]

\* C10: idle alerts dominate.  For 60 <= idle_seconds < 120 the result is
\* HIGH_IDLE, WARNING with a message, even with the rate above the spike
\* threshold at speed > 5 km/h; EMISSION_SPIKE is never returned for a reading
\* with idle_seconds >= 60.
C10_IdleDominates ==
    alert # NoResult =>
        /\ (reading.idle_seconds >= 60 /\ reading.idle_seconds < 120) =>
               /\ alert[1] = "HIGH_IDLE"
               /\ alert[2] = "WARNING"
               /\ alert[3] # NoMessage
        /\ reading.idle_seconds >= 60 => alert[1] # "EMISSION_SPIKE"

\* C10 witness: an idle warning classified for a reading that also meets the
\* spike condition.
C10_Witness ==
    /\ alert # NoResult
    /\ reading.idle_seconds = 60
    /\ reading.co2_rate > 35 * Gram
    /\ reading.speed_kmh > 50
    /\ alert[1] = "HIGH_IDLE"

\* C11: spike rule and fallthrough.  For idle_seconds < 60 the result is
\* EMISSION_SPIKE, WARNING and a message exactly when co2_rate > 35.0 and
\* speed > 5.0 km/h, both strictly; otherwise it is no kind, INFO, no message.
C11_SpikeRule ==
    (alert # NoResult /\ reading.idle_seconds < 60) =>
        IF reading.co2_rate > 35 * Gram /\ reading.speed_kmh > 50
        THEN /\ alert[1] = "EMISSION_SPIKE"
             /\ alert[2] = "WARNING"
             /\ alert[3] # NoMessage
             /\ alert[3].vehicle_id = reading.vehicle_id
        ELSE alert = <<None, "INFO", NoMessage>>

\* C11 witness: a reading exactly on the rate threshold, above the speed gate
\* and below the idle warning, classified as nothing to report.
C11_Witness ==
    /\ alert # NoResult
    /\ reading.idle_seconds = 59
    /\ reading.co2_rate = 35 * Gram
    /\ reading.speed_kmh = 51
    /\ alert = <<None, "INFO", NoMessage>>

\* ------------------------------------------------------------------------
\* Claims about the emission model and the emission transform (SpecEmission)
\* ------------------------------------------------------------------------
Severities == {"INFO", "WARNING", "CRITICAL"}

\* A kind is set exactly when the severity is above INFO.
KindIffSevere(kind, severity) ==
    /\ severity \in Severities
    /\ kind # None <=> severity \in {"WARNING", "CRITICAL"}

\* C12: alert-kind invariant.  What determine_alert returns and every record
\* compute_emissions produces has a severity among INFO, WARNING, CRITICAL and
\* carries an alert kind exactly when the severity is WARNING or CRITICAL.
C12_KindIffSevere ==
    /\ alert # NoResult => KindIffSevere(alert[1], alert[2])
    /\ record # NoResult =>
           KindIffSevere(record[1].alert_type, record[1].alert_severity)

\* C12 witness: an idle warning, both returned by determine_alert and carried
\* by the record of compute_emissions.
C12_Witness ==
    /\ alert # NoResult
    /\ record # NoResult
    /\ vstate.idle_seconds = 60
    /\ alert[1] = "HIGH_IDLE" /\ alert[2] = "WARNING"
    /\ record[1].alert_type = "HIGH_IDLE" /\ record[1].alert_severity = "WARNING"

\* C13: the emission transform is the composition of the emission model and
\* the alert classifier.  The co2_grams, co2_rate_g_per_km, alert kind and
\* severity of the record compute_emissions produces for a VehicleState are
\* what calculate_co2_emission and determine_alert (on that rate) return for
\* the same row.
C13_TransformIsComposition ==
    (record # NoResult /\ co2 # NoResult /\ alert # NoResult) =>
        /\ record[1].co2_grams = co2[1]
        /\ record[1].co2_rate_g_per_km = co2[2]
        /\ record[1].alert_type = alert[1]
        /\ record[1].alert_severity = alert[2]

\* C14: stationary emissions.  For speed < 1.0 km/h calculate_co2_emission
\* returns rate 0 and 8.5 x min(idle_seconds, 10) grams, hence at most 85 g
\* for one reading, whatever the load.
C14_Stationary ==
    (co2 # NoResult /\ vstate.speed_kmh < 10) =>
        /\ co2[2] = 0
        /\ 10 * co2[1] =
               85 * (IF vstate.idle_seconds < 10 THEN vstate.idle_seconds ELSE 10) * Gram
        /\ co2[1] <= 85 * Gram
        /\ \A l \in EmissionLoads :
               calculate_co2_emission(vstate.speed_kmh, l, vstate.idle_seconds) = co2

\* C14 witness: a long idle episode (150 s) at 0.9 km/h is charged 85 g.
C14_Witness ==
    /\ co2 # NoResult
    /\ vstate.speed_kmh = 9
    /\ vstate.idle_seconds = 150
    /\ vstate.load_kg = 2500
    /\ co2 = <<85 * Gram, 0>>

\* C15: optimal band.  For 40 <= speed <= 70, both ends included,
\* calculate_speed_penalty returns exactly 1.0.
C15_OptimalBand ==
    (penalty # NoResult /\ vstate.speed_kmh >= 400 /\ vstate.speed_kmh <= 700) =>
        penalty = <<ONE>>

\* C15 witness: the multiplier of the upper boundary, 70.0 km/h, is 1.0.
C15_Witness ==
    /\ penalty = <<ONE>>
    /\ vstate.speed_kmh = 700

\* C16: moving emissions.  For speed >= 1.0 km/h the rate is
\* (650 + load_kg/1000 x 25) x speed multiplier and the grams are rate x 0.1,
\* whatever idle_seconds; at 45 km/h with load 0 the rate is exactly 650.0.
\* In Gram units with the multiplier in ONE units,
\* (650 + load/40) x Gram x m / ONE = (260000 + 10 x load) x m.
C16_Moving ==
    (co2 # NoResult /\ vstate.speed_kmh >= 10) =>
        /\ co2[2] = (260000 + 10 * vstate.load_kg)
                     * calculate_speed_penalty(vstate.speed_kmh)
        /\ 10 * co2[1] = co2[2]
        /\ \A i \in EmissionIdles :
               calculate_co2_emission(vstate.speed_kmh, vstate.load_kg, i) = co2
        /\ (vstate.speed_kmh = 450 /\ vstate.load_kg = 0) => co2[2] = 650 * Gram

\* C16 witness: 45 km/h, no load: 650.0 g/km and 65.0 g.
C16_Witness ==
    /\ vstate.speed_kmh = 450
    /\ vstate.load_kg = 0
    /\ vstate.idle_seconds = 150
    /\ co2 = <<65 * Gram, 650 * Gram>>

\* C17: load monotonicity.  At a fixed moving speed and fixed idle_seconds, a
\* smaller load gives a strictly smaller co2_rate.
C17_LoadMonotone ==
    (co2 # NoResult /\ vstate.speed_kmh >= 10) =>
        \A l \in EmissionLoads :
            vstate.load_kg < l =>
                co2[2] < calculate_co2_emission(vstate.speed_kmh, l,
                                                vstate.idle_seconds)[2]

\* C17 witness: at 20 km/h the rate for 500 kg is below the rate for 1000 kg.
C17_Witness ==
    /\ co2 # NoResult
    /\ vstate.speed_kmh = 200
    /\ vstate.load_kg = 500
    /\ co2[2] < calculate_co2_emission(200, 1000, vstate.idle_seconds)[2]

\* C18: never negative emissions.  Whatever the input, negative load_kg or
\* idle_seconds included, the grams and the rate calculate_co2_emission
\* returns are not negative (the function has no way to reject an input).
C18_NeverNegative ==
    co2 # NoResult => (co2[1] >= 0 /\ co2[2] >= 0)


\* C29: with base factor 650 g/km and spike threshold 35 g/km, the classifier
\* fed with the rate of the emission model returns EMISSION_SPIKE, WARNING for
\* every reading with speed > 5 km/h, load >= 0 and idle_seconds < 60; for
\* load >= 0 it returns (none, INFO, none) only at speed <= 5 km/h.
C29_MovingAlwaysSpikes ==
    (alert # NoResult /\ co2 # NoResult /\ reading.co2_rate = co2[2]
        /\ vstate.load_kg >= 0) =>
        /\ (vstate.speed_kmh > 50 /\ vstate.idle_seconds < 60) =>
               (alert[1] = "EMISSION_SPIKE" /\ alert[2] = "WARNING")
        /\ alert = <<None, "INFO", NoMessage>> => vstate.speed_kmh <= 50

\* C29 witness: a reading at the most economical point of the model (45 km/h,
\* no load, not idle) is classified as an emission spike, its rate 650.0 g/km.
C29_Witness ==
    /\ vstate.speed_kmh = 450
    /\ vstate.load_kg = 0
    /\ vstate.idle_seconds = 0
    /\ co2 = <<65 * Gram, 650 * Gram>>
    /\ alert # NoResult
    /\ alert[1] = "EMISSION_SPIKE"

\* ------------------------------------------------------------------------
\* Claims about the rolling window aggregator (SpecWindow)
\* ------------------------------------------------------------------------
\* The clock has passed the end of bucket [start, start + 300) plus 30.
PastCutoff(start, now) == now > start + 300 + 30

\* Rows that arrived for the bucket before the clock had passed its cutoff.
ArrivedInTime(start) ==
    {r \in emissions :
        /\ start <= r.timestamp /\ r.timestamp < start + 300
        /\ ~PastCutoff(start, r.arrived_at)}

C7_MembershipClaim ==
    \A start \in DOMAIN windowed :
        windowed[start].reading_count =
            Cardinality({r \in ArrivedInTime(start) :
                            r.vehicle_id = windowed[start].vehicle_id})

\* C8 (as claimed): every summary aggregates rows of exactly one vehicle, and
\* each (vehicle, bucket) pair that has readings has its own summary.
C8_PerVehicleClaim ==
    \A start \in DOMAIN windowed :
        /\ \A r \in RowsOf(start, emissions, buckets) :
               r.vehicle_id = windowed[start].vehicle_id
        /\ \A v \in Vehicles :
               (\E r \in RowsOf(start, emissions, buckets) : r.vehicle_id = v) =>
                   windowed[start].vehicle_id = v

\* The average of column col over rows is avg: the sum over the count, in
\* fixed point (truncated).
IsAverage(avg, rows, col) ==
    /\ avg * Cardinality(rows) <= SumOf(rows, col)
    /\ SumOf(rows, col) < (avg + 1) * Cardinality(rows)

C21_NoZeroFilling ==
    \A s \in DOMAIN windowed :
        /\ windowed[s].reading_count >= 1
        /\ \E r \in emissions :
               /\ r.vehicle_id = windowed[s].vehicle_id
               /\ s <= r.timestamp /\ r.timestamp < s + 300
               /\ r.id \in buckets[s]

\* C21 witness: TRK-102 alone has rows in the first bucket and TRK-101 alone
\* in the second; each bucket has one summary, naming the vehicle that has
\* rows in it.
C21_Witness ==
    /\ DOMAIN windowed = {0, 300}
    /\ windowed[0].vehicle_id = "TRK-102"
    /\ windowed[300].vehicle_id = "TRK-101"
    /\ \A r \in emissions : r.vehicle_id = "TRK-102" <=> r.timestamp < 300

\* The row arrived after the clock had passed the cutoff of its bucket.
ArrivedLate(r) ==
    r.arrived_at > (r.timestamp \div 300) * 300 + 300 + 30

\* C22: late records are dropped.  A step in which a row arrives after its
\* bucket has closed leaves the rows folded into every bucket, every summary
\* and the clock as they were.
C22_LateRowDropped ==
    [][(\E r \in emissions' \ emissions : ArrivedLate(r)) =>
           /\ buckets' = buckets
           /\ windowed' = windowed
           /\ max_time' = max_time]_vars

\* C22 witness: a row that arrived late is in the table the aggregator read
\* and in no bucket, beside a bucket that has a summary.
C22_Witness ==
    /\ \E r \in emissions :
           /\ ArrivedLate(r)
           /\ \A s \in DOMAIN buckets : r.id \notin buckets[s]
    /\ DOMAIN windowed # {}

\* C25 (as claimed): window_start and window_end of every summary are the
\* bounds T and T + 300 of its tumbling bucket, T a multiple of 300, whatever
\* the timestamps of the rows in it; the buckets do not overlap.
C25_BucketBoundsClaim ==
    /\ \A s \in DOMAIN windowed :
           /\ s % 300 = 0
           /\ windowed[s].window_start = s
           /\ windowed[s].window_end = s + 300
    /\ \A s, u \in DOMAIN windowed :
           s # u => (windowed[s].window_end <= windowed[u].window_start
                     \/ windowed[u].window_end <= windowed[s].window_start)

IdleBefore(v, i) == IF i = 1 THEN 0 ELSE sent[v][i - 1].idle_seconds

\* C27: telemetry idle counter.  In every emitted event idle_seconds is >= 0;
\* it is 0 in an event produced while the vehicle is not idle; in an event
\* produced while it is idle it is the value of the previous event plus the
\* sampling interval (2 seconds).
C27_IdleCounter ==
    \A v \in Vehicles :
        \A i \in 1..Len(sent[v]) :
            /\ sent[v][i].idle_seconds >= 0
            /\ ~sent[v][i].is_idle => sent[v][i].idle_seconds = 0
            /\ sent[v][i].is_idle => sent[v][i].idle_seconds = IdleBefore(v, i) + 2

\* C27 witness: an idle run of two updates (2 s, 4 s), a reset, and a new run.
C27_Witness ==
    \E v \in Vehicles :
        /\ Len(sent[v]) >= 4
        /\ sent[v][1].idle_seconds = 2
        /\ sent[v][2].idle_seconds = 4
        /\ sent[v][3].idle_seconds = 0
        /\ sent[v][4].idle_seconds = 2

\* ------------------------------------------------------------------------
\* Claims about the fleet simulator (SpecSim)
\* ------------------------------------------------------------------------
\* C30: the alert state is absorbing.  From a state in which the truck's
\* idle_seconds exceeds 120, a next_tick adds 0.5 to idle_seconds, returns an
\* alert for the truck and leaves it in status WARNING or CRITICAL; and a
\* next_tick on a truck whose status is not MOVING leaves its position as it
\* was.
C30_AlertAbsorbing ==
    [][/\ truck.idle_seconds > 1200 =>
              /\ truck'.idle_seconds = truck.idle_seconds + 5
              /\ \E a \in alerts' : a.vehicle_id = truck.id
              /\ truck'.status \in {"WARNING", "CRITICAL"}
       /\ truck.status # "MOVING" =>
              (truck'.lat = truck.lat /\ truck'.lng = truck.lng)]_vars

\* C30 witness: the truck that started MOVING, away from its base position,
\* has idled for more than 121 seconds and the last tick returned a HIGH_IDLE
\* alert for it.
C30_Witness ==
    /\ truck.id = "TRK-101"
    /\ truck.lat # 0
    /\ truck.idle_seconds > 1210
    /\ \E a \in alerts : a.type = "HIGH_IDLE" /\ a.vehicle_id = "TRK-101"

====
